---- MODULE Spec2Model ----
(***************************************************************************)
(* A model of the request handlers of network/views.py over the tables of  *)
(* network/models.py (User, Post, Like, Follow).                           *)
(*                                                                         *)
(* The stored state is the four tables and the login session.  A request   *)
(* is one action, except the two toggles (like_post, follow), whose        *)
(* get_or_create / delete / count queries are separate database            *)
(* statements: SpecConc runs them one statement at a time, Spec and        *)
(* SpecFeed run a whole request as one step (one worker thread).           *)
(***************************************************************************)
EXTENDS Integers, Sequences, FiniteSets, TLC

\* ------------------------------------------------------------ input sets
Usernames == {"a", "b"}
Anon == "anon"                      \* request.user of a request with no login
Passwords == {"p", "q"}
Emails == {"e"}
Clients == {"c1"}
Methods == {"GET", "POST"}
Whitespace == {" ", "\n"}           \* characters str.strip() removes
\* request contents: empty, whitespace only, plain, padded with inner blank
RawContents ==
    { <<>>, <<" ", "\n">>, <<"x">>, <<"\n", "x", " ", "y", " ">> }

\* ---------------------------------------------------------------- bounds
MaxPosts == 2        \* posts created during one run
MaxFeedPosts == 12   \* posts already stored when a SpecFeed run starts
MaxSocialPosts == 1  \* posts created during one SpecSocial run
MaxNew == 1          \* posts created during one SpecFeed run
NumProcs == 3        \* concurrent toggle requests of a SpecConc run

\* ------------------------------------------------------ program constants
PerPage == 10        \* Paginator(posts, 10)

VARIABLES
    users,      \* User rows: [username, email, password]
    session,    \* per client: the logged-in username, or Anon
    posts,      \* Post rows: [id, user, content, timestamp]
    likes,      \* Like rows: [id, user, post]
    follows,    \* Follow rows: [id, follower, following]
    inflight,   \* per worker: the toggle request it is executing
    origin,     \* history: the tables as they were when the run started
    resp        \* history: the last request and the response it got

vars == <<users, session, posts, likes, follows, inflight, origin, resp>>

Procs == 1..NumProcs

\* ------------------------------------------------------------- responses
\* One flat record for every handler; the fields a handler does not set keep
\* these defaults.
NoResp ==
    [ op |-> "none", method |-> "GET", user |-> Anon, status |-> 0,
      username |-> "", post_id |-> 0, raw |-> <<>>, content |-> <<>>,
      password |-> "", confirmation |-> "",
      message |-> "", location |-> "",
      page |-> [kind |-> "none", n |-> 0], number |-> 0, num_pages |-> 0,
      page_obj |-> <<>>, user_likes |-> {},
      is_liked |-> FALSE, like_count |-> 0,
      was_present |-> FALSE, was_count |-> 0, repeat |-> FALSE,
      after_create |-> FALSE,
      is_following |-> FALSE,
      followers_count |-> 0, following_count |-> 0 ]

\* --------------------------------------------------------------- strings
RECURSIVE LStrip(_)
LStrip(s) ==
    IF s # <<>> /\ Head(s) \in Whitespace THEN LStrip(Tail(s)) ELSE s

RECURSIVE RStrip(_)
RStrip(s) ==
    IF s # <<>> /\ s[Len(s)] \in Whitespace
    THEN RStrip(SubSeq(s, 1, Len(s) - 1))
    ELSE s

\* str.lstrip() in place of str.strip()
StripLeft(s) == LStrip(s)

\* str.strip()
Strip(s) == RStrip(LStrip(s))

\* ------------------------------------------------------------ the tables
\* unique_together = ('user', 'post') and ('follower', 'following')
LikeKey(l) == <<l.user, l.post>>
FollowKey(f) == <<f.follower, f.following>>

\* The unique_together key of a row of the model "Like" or "Follow".
KeyOf(model, r) == IF model = "Like" THEN LikeKey(r) ELSE FollowKey(r)

\* QuerySet.filter on the fields of the unique_together key
Filter(rows, model, key) == {r \in rows : KeyOf(model, r) = key}

\* QuerySet.count()
Count(rows) == Cardinality(rows)

\* a table without its unique_together constraint
UniqueUnchecked(rows, model, key) == TRUE

\* The unique_together constraint, as the database checks it on INSERT.
UniqueOK(rows, model, key) == \A r \in rows : KeyOf(model, r) # key

\* a delete that removes nothing
DeleteNothing(rows, pk) == rows

\* Model.delete() of a loaded instance: DELETE ... WHERE id = pk
DeleteObj(rows, pk) == {r \in rows : r.id # pk}

\* An AutoField value.  The database never hands out a key twice; the model
\* takes the least key that no row and no loaded instance carries, which is
\* the same up to renaming of keys.
FreshId(rows, held) ==
    CHOOSE n \in 1..(Cardinality(rows) + Cardinality(held) + 1) :
        /\ n \notin held
        /\ \A r \in rows : r.id # n

LikeRow(pk, key) == [id |-> pk, user |-> key[1], post |-> key[2]]
FollowRow(pk, key) == [id |-> pk, follower |-> key[1], following |-> key[2]]

RowOf(model, pk, key) ==
    IF model = "Like" THEN LikeRow(pk, key) ELSE FollowRow(pk, key)

Present(rows, model, key) == Filter(rows, model, key) # {}

UserExists(username) == \E u \in users : u.username = username
PostExists(pk) == \E p \in posts : p.id = pk
PostRow(pk) == CHOOSE p \in posts : p.id = pk

\* Like.objects.filter(user=request.user).values_list('post_id', flat=True)
UserLikes(u) == {l.post : l \in {x \in likes : x.user = u}}

\* ------------------------------------------------------- authentication
\* make_password: the stored credential is a hash of the raw password.
make_password(raw) == <<"pbkdf2_sha256", raw>>

check_password(raw, encoded) == encoded = make_password(raw)

\* authenticate(request, username=..., password=...): the user, or Anon (None)
authenticate(username, password) ==
    IF \E u \in users :
           u.username = username /\ check_password(password, u.password)
    THEN username
    ELSE Anon

\* ------------------------------------------------------- toggle requests
\* A like_post or follow request between its database statements.
\*   pc       the statement it executes next
\*   obj      primary key of the instance get_or_create returned
\*   created  get_or_create's second result
\*   found    history: whether its first lookup found the row
\*   count0   history: the post's like count when the request began
IdleReq ==
    [ op |-> "idle", user |-> Anon, key |-> <<>>, pc |-> "idle", obj |-> 0,
      created |-> FALSE, found |-> FALSE, count0 |-> 0 ]

NewReq(op, u, target) ==
    [ IdleReq EXCEPT !.op = op, !.user = u, !.key = <<u, target>>,
                     !.pc = "get",
                     !.count0 = IF op = "like_post"
                                THEN Count({l \in likes : l.post = target})
                                ELSE 0 ]

\* the view without its "if not created: obj.delete()"
AfterGetOrCreateKeep(created) == "respond"

\* "if not created: obj.delete()": the statement that follows get_or_create
AfterGetOrCreate(created) == IF created THEN "respond" ELSE "delete"

\* One database statement of QuerySet.get_or_create(**key) followed by the
\* view's delete: get; on DoesNotExist create; on IntegrityError get again
\* and, if the row is gone by then, re-raise.
GetOrCreateStep(rows, model, req, held) ==
    LET m == Filter(rows, model, req.key)
        one == CHOOSE r \in m : TRUE
    IN  CASE req.pc = "get" ->
               [ rows |-> rows,
                 req |->
                   IF m = {} THEN [req EXCEPT !.pc = "create"]
                   ELSE IF Cardinality(m) = 1
                   THEN [req EXCEPT !.obj = one.id, !.found = TRUE,
                                    !.pc = AfterGetOrCreate(FALSE)]
                   ELSE [req EXCEPT !.found = TRUE, !.pc = "error"] ]
          [] req.pc = "create" ->
               IF UniqueOK(rows, model, req.key)
               THEN LET pk == FreshId(rows, held)
                    IN  [ rows |-> rows \cup {RowOf(model, pk, req.key)},
                          req |-> [req EXCEPT !.obj = pk, !.created = TRUE,
                                              !.pc = AfterGetOrCreate(TRUE)] ]
               ELSE [ rows |-> rows, req |-> [req EXCEPT !.pc = "reget"] ]
          [] req.pc = "reget" ->
               [ rows |-> rows,
                 req |->
                   IF Cardinality(m) = 1
                   THEN [req EXCEPT !.obj = one.id,
                                    !.pc = AfterGetOrCreate(FALSE)]
                   ELSE [req EXCEPT !.pc = "error"] ]
          [] req.pc = "delete" ->
               [ rows |-> DeleteObj(rows, req.obj),
                 req |-> [req EXCEPT !.pc = "respond"] ]
          [] OTHER -> [rows |-> rows, req |-> req]

\* The statement of a request on its own table.
ToggleStep(rows, req, held) ==
    IF req.op = "like_post"
    THEN GetOrCreateStep(rows, "Like", req, held)
    ELSE GetOrCreateStep(rows, "Follow", req, held)

Finished(req) == req.pc \in {"respond", "error"}

\* A request's statements run back to back (no other request in between).
RECURSIVE RunToggle(_)
RunToggle(st) ==
    IF Finished(st.req) THEN st ELSE RunToggle(ToggleStep(st.rows, st.req, {}))

\* What a toggle view does before its get_or_create: login_required, the
\* method test, get_object_or_404, and follow's self-follow test.  A status
\* of 0 means the view goes on to get_or_create.
like_post_entry(u, method, post_id) ==
    LET r == [NoResp EXCEPT !.op = "like_post", !.method = method,
                            !.user = u, !.post_id = post_id,
                            !.repeat = /\ resp.op = "like_post"
                                       /\ resp.status = 200
                                       /\ resp.user = u
                                       /\ resp.post_id = post_id]
    IN  IF u = Anon THEN [r EXCEPT !.status = 302, !.location = "login"]
        ELSE IF method # "POST"
        THEN [r EXCEPT !.status = 400, !.message = "POST request required."]
        ELSE IF ~PostExists(post_id) THEN [r EXCEPT !.status = 404]
        ELSE r

\* "if request.user == profile_user": the self-follow test of follow
is_self_never(u, username) == FALSE

is_self(u, username) == u = username

follow_entry(u, method, username) ==
    LET r == [NoResp EXCEPT !.op = "follow", !.method = method,
                            !.user = u, !.username = username,
                            !.repeat = /\ resp.op = "follow"
                                       /\ resp.method = "POST"
                                       /\ resp.status = 302
                                       /\ resp.user = u
                                       /\ resp.username = username]
    IN  IF u = Anon THEN [r EXCEPT !.status = 302, !.location = "login"]
        ELSE IF method # "POST"
        THEN [r EXCEPT !.status = 302, !.location = "index"]
        ELSE IF ~UserExists(username) THEN [r EXCEPT !.status = 404]
        ELSE IF is_self(u, username)
        THEN [r EXCEPT !.status = 302, !.location = "profile"]
        ELSE r

\* The response of a toggle view whose statements are done; rows is the
\* table as the closing query sees it.  An exception that get_or_create
\* raises is a 500.
like_post_response(entry, req, rows) ==
    IF req.pc = "error"
    THEN [entry EXCEPT !.status = 500, !.was_present = req.found,
                       !.was_count = req.count0]
    ELSE [entry EXCEPT !.status = 200,
                       !.is_liked = req.created,
                       !.like_count = Count({l \in rows : l.post = req.key[2]}),
                       !.was_present = req.found,
                       !.was_count = req.count0]

follow_response(entry, req) ==
    IF req.pc = "error"
    THEN [entry EXCEPT !.status = 500, !.was_present = req.found]
    ELSE [entry EXCEPT !.status = 302, !.location = "profile",
                       !.was_present = req.found]

AllIdle == \A p \in Procs : inflight[p].pc = "idle"

\* ------------------------------------------- handlers, one request a step
like_post(c, method, post_id) ==
    LET u == session[c]
        entry == like_post_entry(u, method, post_id)
        fin == RunToggle([rows |-> likes, req |-> NewReq("like_post", u, post_id)])
    IN  /\ AllIdle
        /\ IF entry.status # 0
           THEN /\ resp' = entry
                /\ UNCHANGED likes
           ELSE /\ likes' = fin.rows
                /\ resp' = like_post_response(entry, fin.req, fin.rows)
        /\ UNCHANGED <<users, session, posts, follows, inflight, origin>>

follow(c, method, username) ==
    LET u == session[c]
        entry == follow_entry(u, method, username)
        fin == RunToggle([rows |-> follows, req |-> NewReq("follow", u, username)])
    IN  /\ AllIdle
        /\ IF entry.status # 0
           THEN /\ resp' = entry
                /\ UNCHANGED follows
           ELSE /\ follows' = fin.rows
                /\ resp' = follow_response(entry, fin.req)
        /\ UNCHANGED <<users, session, posts, likes, inflight, origin>>

\* "if password != confirmation": the test register makes before creating
confirmation_matches_any(password, confirmation) == TRUE

confirmation_matches(password, confirmation) == password = confirmation

register(c, method, username, email, password, confirmation) ==
    LET r == [NoResp EXCEPT !.op = "register", !.method = method,
                            !.user = session[c], !.username = username,
                            !.password = password,
                            !.confirmation = confirmation]
    IN  /\ AllIdle
        /\ IF method # "POST"
           THEN /\ resp' = [r EXCEPT !.status = 200]
                /\ UNCHANGED <<users, session>>
           ELSE IF ~confirmation_matches(password, confirmation)
           THEN /\ resp' = [r EXCEPT !.status = 200,
                                     !.message = "Passwords must match."]
                /\ UNCHANGED <<users, session>>
           ELSE IF UserExists(username)
           THEN /\ resp' = [r EXCEPT !.status = 200,
                                     !.message = "Username already taken."]
                /\ UNCHANGED <<users, session>>
           ELSE /\ users' = users \cup
                       {[ username |-> username, email |-> email,
                          password |-> make_password(password) ]}
                /\ session' = [session EXCEPT ![c] = username]
                /\ resp' = [r EXCEPT !.status = 302, !.location = "index"]
        /\ UNCHANGED <<posts, likes, follows, inflight, origin>>

login_view(c, method, username, password) ==
    LET r == [NoResp EXCEPT !.op = "login", !.method = method,
                            !.user = session[c], !.username = username]
        user == authenticate(username, password)
    IN  /\ AllIdle
        /\ IF method # "POST"
           THEN /\ resp' = [r EXCEPT !.status = 200]
                /\ UNCHANGED session
           ELSE IF user # Anon
           THEN /\ session' = [session EXCEPT ![c] = user]
                /\ resp' = [r EXCEPT !.status = 302, !.location = "index"]
           ELSE /\ resp' = [r EXCEPT !.status = 200,
                              !.message = "Invalid username and/or password."]
                /\ UNCHANGED session
        /\ UNCHANGED <<users, posts, likes, follows, inflight, origin>>

logout_view(c) ==
    /\ AllIdle
    /\ session' = [session EXCEPT ![c] = Anon]
    /\ resp' = [NoResp EXCEPT !.op = "logout", !.user = session[c],
                              !.status = 302, !.location = "index"]
    /\ UNCHANGED <<users, posts, likes, follows, inflight, origin>>

\* "if post.user != request.user": the owner test of edit_post
is_author_any(post, u) == TRUE

is_author(post, u) == post.user = u

edit_post(c, method, post_id, raw) ==
    LET u == session[c]
        r == [NoResp EXCEPT !.op = "edit_post", !.method = method,
                            !.user = u, !.post_id = post_id, !.raw = raw]
        content == Strip(raw)
    IN  /\ AllIdle
        /\ IF u = Anon
           THEN /\ resp' = [r EXCEPT !.status = 302, !.location = "login"]
                /\ UNCHANGED posts
           ELSE IF method # "POST"
           THEN /\ resp' = [r EXCEPT !.status = 400,
                                     !.message = "POST request required."]
                /\ UNCHANGED posts
           ELSE IF ~PostExists(post_id)
           THEN /\ resp' = [r EXCEPT !.status = 404]
                /\ UNCHANGED posts
           ELSE IF ~is_author(PostRow(post_id), u)
           THEN /\ resp' = [r EXCEPT !.status = 403,
                              !.message = "You can only edit your own posts."]
                /\ UNCHANGED posts
           ELSE IF content = <<>>
           THEN /\ resp' = [r EXCEPT !.status = 400,
                                     !.message = "Content cannot be empty."]
                /\ UNCHANGED posts
           ELSE /\ posts' = (posts \ {PostRow(post_id)}) \cup
                       {[PostRow(post_id) EXCEPT !.content = content]}
                /\ resp' = [r EXCEPT !.status = 200, !.content = content,
                              !.message = "Post updated successfully."]
        /\ UNCHANGED <<users, session, likes, follows, inflight, origin>>

\* ------------------------------------------------------------------ feeds
\* ordering = ['timestamp'] in place of ['-timestamp']
Oldest(rows) ==
    LET ts == {p.timestamp : p \in rows}
        low == CHOOSE t \in ts : \A u \in ts : t <= u
    IN  {p \in rows : p.timestamp = low}

\* Post.Meta.ordering = ['-timestamp']: every sequence of the rows with the
\* timestamps never increasing.  Rows of equal timestamp come in whatever
\* order the database returns them.
Newest(rows) ==
    LET ts == {p.timestamp : p \in rows}
        top == CHOOSE t \in ts : \A u \in ts : u <= t
    IN  {p \in rows : p.timestamp = top}

RECURSIVE OrderBy(_)
OrderBy(rows) ==
    IF rows = {} THEN {<<>>}
    ELSE UNION { {<<p>> \o s : s \in OrderBy(rows \ {p})} : p \in Newest(rows) }

\* The page parameter of a request: absent, not a number, or an integer.
PageParams ==
    {[kind |-> "none", n |-> 0], [kind |-> "text", n |-> 0]}
        \cup {[kind |-> "int", n |-> k] : k \in {0, 1, 2, 3}}

\* Paginator.num_pages (orphans = 0, allow_empty_first_page = True)
num_pages(count) ==
    IF count = 0 THEN 1 ELSE (count + PerPage - 1) \div PerPage

\* get_page that settles on the nearest valid page
nearest_page_number(count, page) ==
    IF page.kind # "int" THEN 1
    ELSE IF page.n < 1 THEN 1
    ELSE IF page.n > num_pages(count) THEN num_pages(count)
    ELSE page.n

\* Paginator.get_page(number): the page number it settles on.
\* PageNotAnInteger gives page 1, EmptyPage gives the last page.
get_page_number(count, page) ==
    IF page.kind # "int" THEN 1
    ELSE IF page.n < 1 THEN num_pages(count)
    ELSE IF page.n > num_pages(count) THEN num_pages(count)
    ELSE page.n

Min(a, b) == IF a <= b THEN a ELSE b

\* Paginator.page(number).object_list: the slice [bottom:top]
page_slice(object_list, number) ==
    SubSeq(object_list, (number - 1) * PerPage + 1,
           Min(number * PerPage, Len(object_list)))

get_page(object_list, page) ==
    page_slice(object_list, get_page_number(Len(object_list), page))

\* Post.objects.all()
AllPosts == posts

\* Post.objects.filter(user=profile_user)
ProfilePosts(username) == {p \in posts : p.user = username}

\* the followers of the user in place of the users followed
followers_of(u) == {f.follower : f \in {x \in follows : x.following = u}}

\* Follow.objects.filter(follower=request.user).values_list('following')
following_users(u) == {f.following : f \in {x \in follows : x.follower = u}}

\* Post.objects.filter(user__in=following_users)
FollowingPosts(u) == {p \in posts : p.user \in following_users(u)}

\* render(request, "network/index.html", {...page_obj, user_likes})
FeedResp(r, u, object_list, page) ==
    [r EXCEPT !.status = 200, !.page = page,
              !.number = get_page_number(Len(object_list), page),
              !.num_pages = num_pages(Len(object_list)),
              !.page_obj = get_page(object_list, page),
              !.user_likes = IF u = Anon THEN {} ELSE UserLikes(u)]

\* timezone.now() at an insert: not before the newest stored timestamp, and
\* equal to it when two inserts fall on the same clock reading.
ClockReadings ==
    IF posts = {} THEN {1}
    ELSE LET t == (CHOOSE p \in Newest(posts) : TRUE).timestamp
         IN  {t, t + 1}

\* Post.objects.create(user=request.user, content=content)
CreatePost(u, content, now) ==
    posts \cup {[ id |-> FreshId(posts, {}), user |-> u,
                  content |-> content, timestamp |-> now ]}

\* cap: the number of stored posts at which the model stops creating
index(c, method, raw, page, cap) ==
    LET u == session[c]
        r == [NoResp EXCEPT !.op = "index", !.method = method, !.user = u,
                            !.raw = raw,
                            !.after_create = /\ resp.op = "index"
                                             /\ resp.status = 302]
        content == Strip(raw)
    IN  /\ AllIdle
        /\ IF method = "POST" /\ u # Anon /\ content # <<>>
           THEN /\ Cardinality(posts) < cap
                /\ \E now \in ClockReadings :
                       posts' = CreatePost(u, content, now)
                /\ resp' = [r EXCEPT !.status = 302, !.location = "index",
                                     !.content = content,
                                     !.post_id = FreshId(posts, {})]
           ELSE /\ \E object_list \in OrderBy(AllPosts) :
                       resp' = FeedResp(r, u, object_list, page)
                /\ UNCHANGED posts
        /\ UNCHANGED <<users, session, likes, follows, inflight, origin>>

profile(c, method, username, page) ==
    LET u == session[c]
        r == [NoResp EXCEPT !.op = "profile", !.method = method, !.user = u,
                            !.username = username]
    IN  /\ AllIdle
        /\ IF u = Anon
           THEN resp' = [r EXCEPT !.status = 302, !.location = "login"]
           ELSE IF ~UserExists(username)
           THEN resp' = [r EXCEPT !.status = 404]
           ELSE \E object_list \in OrderBy(ProfilePosts(username)) :
                  resp' =
                    [FeedResp(r, u, object_list, page) EXCEPT
                       !.followers_count =
                           Count({f \in follows : f.following = username}),
                       !.following_count =
                           Count({f \in follows : f.follower = username}),
                       !.is_following =
                           /\ u # username
                           /\ Present(follows, "Follow", <<u, username>>)]
        /\ UNCHANGED <<users, session, posts, likes, follows, inflight, origin>>

following(c, method, page) ==
    LET u == session[c]
        r == [NoResp EXCEPT !.op = "following", !.method = method, !.user = u]
    IN  /\ AllIdle
        /\ IF u = Anon
           THEN resp' = [r EXCEPT !.status = 302, !.location = "login"]
           ELSE \E object_list \in OrderBy(FollowingPosts(u)) :
                  resp' = FeedResp(r, u, object_list, page)
        /\ UNCHANGED <<users, session, posts, likes, follows, inflight, origin>>

\* ------------------------------------------------------------------ Spec
\* The application from an empty database, one request at a time.
PostIds == 1..(Cardinality(posts) + 1)

Init ==
    /\ users = {}
    /\ session = [c \in Clients |-> Anon]
    /\ posts = {}
    /\ likes = {}
    /\ follows = {}
    /\ inflight = [p \in Procs |-> IdleReq]
    /\ origin = [posts |-> {}, likes |-> {}, follows |-> {}]
    /\ resp = NoResp

Register ==
    \E c \in DOMAIN session, m \in Methods, n \in Usernames, e \in Emails,
       pw \in Passwords, cf \in Passwords :
        register(c, m, n, e, pw, cf)

Login ==
    \E c \in DOMAIN session, m \in Methods, n \in Usernames, pw \in Passwords :
        login_view(c, m, n, pw)

Logout == \E c \in DOMAIN session : logout_view(c)

NoPage == [kind |-> "none", n |-> 0]

Index ==
    \E c \in DOMAIN session, m \in Methods, raw \in RawContents :
        index(c, m, raw, NoPage, MaxPosts)

EditPost ==
    \E c \in DOMAIN session, m \in Methods, id \in PostIds, raw \in RawContents :
        edit_post(c, m, id, raw)

Next ==
    \/ Register
    \/ Login
    \/ Logout
    \/ Index
    \/ EditPost

Spec == Init /\ [][Next]_vars

\* ------------------------------------------------------------ SpecSocial
\* Likes and follows from an empty database, one request at a time: two
\* users sign up, log in and out, publish, and toggle.
SignUp ==
    \E c \in DOMAIN session, n \in Usernames : register(c, "POST", n, "e", "p", "p")

SignIn ==
    \E c \in DOMAIN session, n \in Usernames : login_view(c, "POST", n, "p")

Publish ==
    \E c \in DOMAIN session : index(c, "POST", <<"x">>, NoPage, MaxSocialPosts)

Follow ==
    \E c \in DOMAIN session, m \in Methods, n \in Usernames : follow(c, m, n)

LikePost ==
    \E c \in DOMAIN session, m \in Methods, id \in PostIds : like_post(c, m, id)

NextSocial ==
    \/ SignUp
    \/ SignIn
    \/ Logout
    \/ Publish
    \/ Follow
    \/ LikePost

SpecSocial == Init /\ [][NextSocial]_vars

LikeTwiceStep ==
    ( /\ resp.op = "like_post" /\ resp.status = 200
      /\ resp'.op = "like_post" /\ resp'.status = 200
      /\ resp'.user = resp.user
      /\ resp'.post_id = resp.post_id )
    => /\ Present(likes', "Like", <<resp.user, resp.post_id>>)
              = resp.was_present
       /\ Count({l \in likes' : l.post = resp.post_id}) = resp.was_count
       /\ resp'.repeat
       /\ resp.was_count = 0 =>
              /\ resp.is_liked /\ resp.like_count = 1
              /\ ~resp'.is_liked /\ resp'.like_count = 0

FollowTwiceStep ==
    ( /\ resp.op = "follow" /\ resp.method = "POST" /\ resp.status = 302
      /\ resp'.op = "follow" /\ resp'.method = "POST" /\ resp'.status = 302
      /\ resp'.user = resp.user
      /\ resp'.username = resp.username
      /\ resp.user # resp.username )
    => /\ Present(follows', "Follow", <<resp.user, resp.username>>)
              = resp.was_present
       /\ resp'.repeat

\* C2: the same toggle twice in a row, nothing in between, restores the
\* state: the Like (Follow) row is present iff it was present before the
\* first of the two, and the like count is what it was; from no prior like
\* the two responses are (true, 1) and (false, 0).
C2_ToggleTwiceRestores == [][LikeTwiceStep /\ FollowTwiceStep]_vars

\* The second of two like toggles in a row on a post nobody liked, with a
\* follow edge stored.
C2_Witness ==
    /\ resp.op = "like_post"
    /\ resp.status = 200
    /\ resp.repeat
    /\ ~resp.is_liked
    /\ resp.like_count = 0
    /\ follows # {}

NoSelfFollow == \A f \in follows : f.follower # f.following

SelfFollowStep ==
    ( /\ resp'.op = "follow"
      /\ resp'.user # Anon
      /\ resp'.username = resp'.user )
    => /\ UNCHANGED <<users, session, posts, likes, follows>>
       /\ resp'.status = 302

\* C3: no Follow row ever has follower = following; a follow request for the
\* requester's own username creates nothing and changes no stored state.
C3_NoSelfFollow == []NoSelfFollow /\ [][SelfFollowStep]_vars

\* A logged-in user posted a follow for their own name.
C3_Witness ==
    /\ resp.op = "follow"
    /\ resp.method = "POST"
    /\ resp.user # Anon
    /\ resp.username = resp.user
    /\ follows # {}

\* -------------------------------------------------------------- SpecConc
\* Concurrent toggle requests, one database statement a step.  The run
\* starts from a database the application reaches (two users, a post of b)
\* with the likes of a and b and the follow a -> b stored or not; a is
\* logged in, and each worker serves one request.
StoredUsers ==
    {[ username |-> n, email |-> "e", password |-> make_password("p") ]
        : n \in Usernames}

InitConc ==
    /\ users = StoredUsers
    /\ session = [c \in Clients |-> "a"]
    /\ posts = {[id |-> 1, user |-> "b", content |-> <<"x">>, timestamp |-> 1]}
    /\ likes \in {{}, {LikeRow(1, <<"a", 1>>)}, {LikeRow(1, <<"b", 1>>)},
                 {LikeRow(1, <<"b", 1>>), LikeRow(2, <<"a", 1>>)}}
    /\ follows \in {{}, {FollowRow(1, <<"a", "b">>)}}
    /\ inflight = [p \in Procs |-> IdleReq]
    /\ origin = [posts |-> posts, likes |-> likes, follows |-> follows]
    /\ resp = NoResp

\* primary keys of the instances that requests on a table hold to delete
Held(op) ==
    {inflight[q].obj :
        q \in {x \in Procs : inflight[x].op = op /\ inflight[x].pc = "delete"}}

Statement == [NoResp EXCEPT !.op = "statement"]

\* A worker takes a request up to its get_or_create.
Begin(p, c, op, target) ==
    LET u == session[c]
        entry == IF op = "like_post" THEN like_post_entry(u, "POST", target)
                 ELSE follow_entry(u, "POST", target)
    IN  /\ inflight[p].pc = "idle"
        /\ IF entry.status # 0
           THEN /\ resp' = entry
                /\ inflight' = [inflight EXCEPT
                                  ![p] = [IdleReq EXCEPT !.op = op, !.user = u,
                                                         !.pc = "done"]]
           ELSE /\ resp' = Statement
                /\ inflight' = [inflight EXCEPT ![p] = NewReq(op, u, target)]
        /\ UNCHANGED <<users, session, posts, likes, follows, origin>>

\* A worker executes the next database statement of its request.
Step(p) ==
    LET req == inflight[p]
    IN  /\ req.pc \in {"get", "create", "reget", "delete"}
        /\ IF req.op = "like_post"
           THEN /\ likes' = ToggleStep(likes, req, Held(req.op)).rows
                /\ UNCHANGED follows
           ELSE /\ follows' = ToggleStep(follows, req, Held(req.op)).rows
                /\ UNCHANGED likes
        /\ inflight' =
             [inflight EXCEPT
                ![p] = ToggleStep(IF req.op = "like_post" THEN likes
                                  ELSE follows, req, Held(req.op)).req]
        /\ resp' = Statement
        /\ UNCHANGED <<users, session, posts, origin>>

\* A worker answers: like_post counts the likes, follow redirects.
Respond(p) ==
    LET req == inflight[p]
    IN  /\ Finished(req)
        /\ resp' =
             IF req.op = "like_post"
             THEN like_post_response(
                      [NoResp EXCEPT !.op = "like_post", !.method = "POST",
                                     !.user = req.user,
                                     !.post_id = req.key[2]],
                      req, likes)
             ELSE follow_response(
                      [NoResp EXCEPT !.op = "follow", !.method = "POST",
                                     !.user = req.user,
                                     !.username = req.key[2]],
                      req)
        /\ inflight' = [inflight EXCEPT
                          ![p] = [IdleReq EXCEPT !.op = req.op,
                                                 !.user = req.user,
                                                 !.key = req.key,
                                                 !.found = req.found,
                                                 !.pc = "done"]]
        /\ UNCHANGED <<users, session, posts, likes, follows, origin>>

BeginLike ==
    \E p \in Procs, c \in DOMAIN session, id \in PostIds : Begin(p, c, "like_post", id)

BeginFollow ==
    \E p \in Procs, c \in DOMAIN session, n \in Usernames : Begin(p, c, "follow", n)

Statements == \E p \in Procs : Step(p)

Responses == \E p \in Procs : Respond(p)

NextConc ==
    \/ BeginLike
    \/ BeginFollow
    \/ Statements
    \/ Responses

SpecConc == InitConc /\ [][NextConc]_vars

\* -------------------------------------------------------------- SpecFeed
\* The feeds over a database that already holds up to MaxFeedPosts posts,
\* one clock reading apart: the first of a, the rest of b, each liked by the
\* other user; a is logged in.  The run fetches the three feeds at any page,
\* publishes, edits and follows.
StoredPost(i) ==
    [ id |-> i, user |-> IF i = 1 THEN "a" ELSE "b", content |-> <<"x">>,
      timestamp |-> i ]

InitFeed ==
    /\ users = StoredUsers
    /\ session = [c \in Clients |-> "a"]
    /\ \E n \in 0..MaxFeedPosts : posts = {StoredPost(i) : i \in 1..n}
    /\ likes = {LikeRow(p.id, <<IF p.user = "a" THEN "b" ELSE "a", p.id>>)
                  : p \in posts}
    /\ follows = {}
    /\ inflight = [p \in Procs |-> IdleReq]
    /\ origin = [posts |-> posts, likes |-> likes, follows |-> follows]
    /\ resp = NoResp

FeedIndex ==
    \E c \in DOMAIN session, pg \in PageParams :
        index(c, "GET", <<>>, pg, Cardinality(origin.posts) + MaxNew)

FeedPublish ==
    \E c \in DOMAIN session :
        index(c, "POST", <<"x">>, NoPage, Cardinality(origin.posts) + MaxNew)

FeedProfile ==
    \E c \in DOMAIN session, n \in Usernames, pg \in PageParams :
        profile(c, "GET", n, pg)

FeedFollowing ==
    \E c \in DOMAIN session, pg \in PageParams : following(c, "GET", pg)

FeedFollow ==
    \E c \in DOMAIN session, n \in Usernames : follow(c, "POST", n)

FeedEdit ==
    \E c \in DOMAIN session, id \in {1, 2, Cardinality(posts)} :
        edit_post(c, "POST", id, <<"\n", "x", " ", "y", " ">>)

NextFeed ==
    \/ FeedIndex
    \/ FeedPublish
    \/ FeedProfile
    \/ FeedFollowing
    \/ FeedFollow
    \/ FeedEdit

SpecFeed == InitFeed /\ [][NextFeed]_vars

\* ---------------------------------------------------------------- claims
Blank(s) == \A k \in 1..Len(s) : s[k] \in Whitespace

\* content is raw without its leading and trailing whitespace
TrimmedOf(content, raw) ==
    /\ content # <<>>
    /\ Head(content) \notin Whitespace
    /\ content[Len(content)] \notin Whitespace
    /\ \E i \in 1..Len(raw) :
           /\ content = SubSeq(raw, i, i + Len(content) - 1)
           /\ \A k \in 1..Len(raw) :
                  (k < i \/ k > i + Len(content) - 1) => raw[k] \in Whitespace

\* C1: an edit_post POST by a logged-in requester who is not the author of
\* the post gets 403 and changes no table (nor the session), whatever
\* content it carries.
C1_NonAuthorEditRejected ==
    [][ ( /\ resp'.op = "edit_post"
          /\ resp'.method = "POST"
          /\ resp'.user # Anon
          /\ PostExists(resp'.post_id)
          /\ PostRow(resp'.post_id).user # resp'.user )
        => ( /\ resp'.status = 403
             /\ UNCHANGED <<users, session, posts, likes, follows>> ) ]_vars

\* A non-author sent content that differs from the stored content.
C1_Witness ==
    /\ resp.op = "edit_post"
    /\ resp.status = 403
    /\ ~Blank(resp.raw)
    /\ PostRow(resp.post_id).user # resp.user
    /\ PostRow(resp.post_id).content # Strip(resp.raw)

\* C4: a register POST whose password differs from its confirmation creates
\* no User and changes no table and no session.
C4_MismatchCreatesNothing ==
    [][ ( /\ resp'.op = "register"
          /\ resp'.method = "POST"
          /\ resp'.password # resp'.confirmation )
        => ( /\ UNCHANGED <<users, session, posts, likes, follows>>
             /\ resp'.status = 200 ) ]_vars

\* A mismatched registration for a username that is still free.
C4_Witness ==
    /\ resp.op = "register"
    /\ resp.method = "POST"
    /\ resp.password # resp.confirmation
    /\ ~UserExists(resp.username)
    /\ users # {}

StoredContentsTrimmed ==
    \A p \in posts :
        /\ p.content # <<>>
        /\ Head(p.content) \notin Whitespace
        /\ p.content[Len(p.content)] \notin Whitespace

IndexPostStep ==
    (resp'.op = "index" /\ resp'.method = "POST") =>
        IF resp'.user = Anon \/ Blank(resp'.raw)
        THEN posts' = posts
        ELSE /\ posts \subseteq posts'
             /\ \E p \in posts' \ posts :
                    /\ posts' = posts \cup {p}
                    /\ p.user = resp'.user
                    /\ TrimmedOf(p.content, resp'.raw)

EmptyEditStep ==
    ( /\ resp'.op = "edit_post"
      /\ resp'.method = "POST"
      /\ PostExists(resp'.post_id)
      /\ PostRow(resp'.post_id).user = resp'.user
      /\ Blank(resp'.raw) )
    => (resp'.status = 400 /\ posts' = posts)

\* C10: every stored post has non-empty content without leading or trailing
\* whitespace; an index POST that is unauthenticated or blank creates no
\* post, any other creates exactly one post of the requester holding the
\* trimmed content; an edit by the author with blank content gets 400 and
\* leaves the posts as they are.
C10_ContentsTrimmed ==
    /\ []StoredContentsTrimmed
    /\ [][IndexPostStep /\ EmptyEditStep]_vars

\* A post was created from padded content, and a blank edit was refused.
C10_Witness ==
    /\ resp.op = "edit_post"
    /\ resp.method = "POST"
    /\ resp.status = 400
    /\ resp.raw # <<>>
    /\ Blank(resp.raw)
    /\ PostExists(resp.post_id)
    /\ PostRow(resp.post_id).user = resp.user
    /\ Len(PostRow(resp.post_id).content) > 1

\* C5: at most one Like row per (user, post) and at most one Follow row per
\* (follower, following), in every state of every interleaving.
C5_UniquePairs ==
    /\ \A x \in likes, y \in likes :
           (x.user = y.user /\ x.post = y.post) => x = y
    /\ \A x \in follows, y \in follows :
           (x.follower = y.follower /\ x.following = y.following) => x = y

\* The database has refused a second Like of a pair, and a request is about
\* to insert a second Follow of a pair.
C5_Witness ==
    \E p \in Procs, q \in Procs :
        /\ inflight[p].op = "like_post" /\ inflight[p].pc = "reget"
        /\ inflight[q].op = "follow" /\ inflight[q].pc = "create"

\* The table after the same request has run twice, one run after the other.
SerialTwice(rows, req) ==
    RunToggle([rows |-> RunToggle([rows |-> rows,
                                   req |-> [req EXCEPT !.pc = "get"]]).rows,
               req |-> [req EXCEPT !.pc = "get"]]).rows

\* two workers have answered the same toggle and no other request has run
TwoToggles(p, q) ==
    /\ p # q
    /\ inflight[p].pc = "done" /\ inflight[q].pc = "done"
    /\ inflight[p].key # <<>>
    /\ inflight[p].op = inflight[q].op
    /\ inflight[p].key = inflight[q].key
    /\ \A x \in Procs \ {p, q} : inflight[x].pc = "idle"

LostUpdate(p) ==
    LET req == [IdleReq EXCEPT !.op = inflight[p].op,
                               !.user = inflight[p].user,
                               !.key = inflight[p].key]
    IN  IF req.op = "like_post"
        THEN Present(likes, "Like", req.key)
                 # Present(SerialTwice(origin.likes, req), "Like", req.key)
        ELSE Present(follows, "Follow", req.key)
                 # Present(SerialTwice(origin.follows, req), "Follow", req.key)

\* C6: two concurrent toggles of one pair can lose an update.  Whenever two
\* requests for the same pair have both answered, the row's presence
\* differs from what the two give when run one after the other exactly when
\* the existence check of each found the row, that is when both checks came
\* before either delete.
C6_LostUpdate ==
    \A p \in Procs, q \in Procs :
        TwoToggles(p, q) =>
            (LostUpdate(p) <=> (inflight[p].found /\ inflight[q].found))

\* Two like toggles of one pair have answered and the like is lost.
C6_Witness ==
    \E p \in Procs, q \in Procs :
        /\ TwoToggles(p, q)
        /\ inflight[p].op = "like_post"
        /\ LostUpdate(p)

IsFeed(r) == r.op \in {"index", "profile", "following"} /\ r.status = 200

\* the posts whose author the user follows
Followed(u) ==
    {p \in posts : \E f \in follows : f.follower = u /\ f.following = p.user}

\* the posts a feed response draws its page from
QuerysetOf(r) ==
    IF r.op = "index" THEN posts
    ELSE IF r.op = "profile" THEN {p \in posts : p.user = r.username}
    ELSE Followed(r.user)

Range(s) == {s[i] : i \in 1..Len(s)}

\* the pages of a feed, first to last, one after the other
RECURSIVE JoinPages(_, _)
JoinPages(object_list, k) ==
    IF k > num_pages(Len(object_list)) THEN <<>>
    ELSE page_slice(object_list, k) \o JoinPages(object_list, k + 1)

\* the size of page number of a feed of count posts, pages of PerPage
PageLen(count, number) ==
    IF count - (number - 1) * PerPage > PerPage THEN PerPage
    ELSE count - (number - 1) * PerPage

LastPage(count) ==
    CHOOSE k \in 1..(count + 1) :
        /\ k * PerPage >= count
        /\ k > 1 => (k - 1) * PerPage < count

\* C7: the followed feed of a user, all pages together, holds exactly the
\* posts of the authors the user follows at the time of the request: none
\* of the user's own posts, none of an unfollowed author, and every post of
\* a followed one.
C7_FollowedFeed ==
    /\ \A u \in Usernames : \A object_list \in OrderBy(FollowingPosts(u)) :
           /\ Range(JoinPages(object_list, 1)) = Followed(u)
           /\ \A p \in Range(JoinPages(object_list, 1)) : p.user # u
    /\ (resp.op = "following" /\ resp.status = 200) =>
           /\ Range(resp.page_obj) \subseteq Followed(resp.user)
           /\ Len(resp.page_obj) =
                  PageLen(Cardinality(Followed(resp.user)), resp.number)

\* The second page of a followed feed, fetched by a user who has posts.
C7_Witness ==
    /\ resp.op = "following"
    /\ resp.status = 200
    /\ resp.number = 2
    /\ \E p \in posts : p.user = resp.user

\* C8 as stated: pages of 10, and a page number out of range settles on the
\* nearest valid page: the first below 1, the last above the page count.
C8_ClampsToNearest ==
    (IsFeed(resp) /\ resp.page.kind = "int") =>
        LET last == LastPage(Cardinality(QuerysetOf(resp)))
        IN  /\ Len(resp.page_obj) <= PerPage
            /\ resp.page.n < 1 => resp.number = 1
            /\ resp.page.n > last => resp.number = last
            /\ resp.page.n \in 1..last => resp.number = resp.page.n

\* C8, amended: pages of 10, page numbers from 1; a page number below 1 or
\* above the page count settles on the last page, a missing or non-numeric
\* one on the first.
C8_ClampsToLast ==
    IsFeed(resp) =>
        LET count == Cardinality(QuerysetOf(resp))
            last == LastPage(count)
        IN  /\ resp.num_pages = last
            /\ resp.number =
                   IF resp.page.kind # "int" THEN 1
                   ELSE IF resp.page.n \in 1..last THEN resp.page.n
                   ELSE last
            /\ Len(resp.page_obj) = PageLen(count, resp.number)

\* A feed of two pages was asked for page 0.
C8_Witness ==
    /\ IsFeed(resp)
    /\ resp.page.kind = "int"
    /\ resp.page.n < 1
    /\ resp.num_pages > 1

Distinct(rows) == \A p \in rows, q \in rows : p.timestamp = q.timestamp => p = q

Descending(s) == \A i \in 1..(Len(s) - 1) : s[i].timestamp > s[i + 1].timestamp

Ids(s) == [i \in 1..Len(s) |-> s[i].id]

FeedQuerysets ==
    {posts} \cup {{p \in posts : p.user = u} : u \in Usernames}
            \cup {Followed(u) : u \in Usernames}

FeedsDescending ==
    /\ \A rows \in FeedQuerysets :
           Distinct(rows) =>
               \A object_list \in OrderBy(rows) :
                   /\ Descending(JoinPages(object_list, 1))
                   /\ Len(JoinPages(object_list, 1)) = Cardinality(rows)
    /\ (IsFeed(resp) /\ Distinct(QuerysetOf(resp))) =>
           Descending(resp.page_obj)

CreateThenFetchStep ==
    ( /\ resp.op = "index" /\ resp.status = 302
      /\ resp'.op = "index" /\ resp'.status = 200
      /\ resp'.number = 1
      /\ Distinct(posts) )
    => /\ resp'.page_obj # <<>>
       /\ resp'.page_obj[1].id = resp.post_id
       /\ resp'.page_obj[1].user = resp.user
       /\ resp'.page_obj[1].content = resp.content
       /\ \A l \in likes : l.post # resp.post_id

EditKeepsPositionStep ==
    (resp'.op = "edit_post" /\ resp'.status = 200) =>
        {Ids(s) : s \in OrderBy(posts')} = {Ids(s) : s \in OrderBy(posts)}

\* C9: a feed whose posts have distinct timestamps comes strictly newest
\* first across its pages; the global feed fetched right after a post was
\* created through index shows that post first on page 1, with its content
\* and no likes; an edit leaves every post where it was in the order.
C9_NewestFirst ==
    /\ []FeedsDescending
    /\ [][CreateThenFetchStep /\ EditKeepsPositionStep]_vars

\* The global feed, two pages of it, fetched right after a post was created,
\* with an edited post stored.
C9_Witness ==
    /\ resp.op = "index"
    /\ resp.status = 200
    /\ resp.after_create
    /\ resp.num_pages = 2
    /\ Distinct(posts)
    /\ \E p \in posts : p.content # <<"x">>

====
